---- MODULE Spec2Model ----
(***************************************************************************)
(* Model of the two utilities of the Modeling package:                     *)
(*   assess_collinearity     (Modeling/collinearity_check.py)              *)
(*   perform_grid_search_cv  (Modeling/linear_rfe_svm.py)                  *)
(* Correlations are kept exact: an entry num/sqrt(den2) is the Pearson     *)
(* coefficient of two columns, computed from the cells of the dataframe    *)
(* (floating-point rounding is not modelled). The columns of a dataframe   *)
(* have distinct names. What the estimators of the library compute (the    *)
(* support mask, the cross-validation scores, the predictions) is chosen   *)
(* freely among the values their contracts allow.                          *)
(***************************************************************************)
EXTENDS Integers, Sequences, FiniteSets, TLC

VARIABLES
    \* assess_collinearity: its arguments, its return value, the caller's position
    dataframe, threshold, collinear_features, cpc,
    \* perform_grid_search_cv: its arguments
    selected_kernels, param_grids, X_train_scaled_df, y_train,
    X_test_scaled_df, y_test, k_fold,
    \* perform_grid_search_cv: its locals, what the call has printed so far,
    \* its return value
    pc, kernel_pos, best_models, grid_search, best_pipeline, best_rfecv,
    selected_features, y_train_pred, y_test_pred, train_accuracy,
    test_accuracy, fold, output, result, exception,
    \* the caller: how many calls it has made
    calls

cvars == <<dataframe, threshold, collinear_features, cpc>>
gargs == <<selected_kernels, param_grids, X_train_scaled_df, y_train,
           X_test_scaled_df, y_test, k_fold>>
glocals == <<pc, kernel_pos, best_models, grid_search, best_pipeline,
             best_rfecv, selected_features, y_train_pred, y_test_pred,
             train_accuracy, test_accuracy, fold, output, result, exception>>
gvars == <<gargs, glocals>>
vars == <<cvars, gvars, calls>>

(* ------------------------------ bounds -------------------------------- *)
MaxCols == 3
NRows == 3
MaxKernels == 2
MaxFold == 2
MaxCalls == 3

Cells == {0, 1}
ColumnNames == <<"f3", "f1", "f4", "f2", "f5", "f0">>
Thresholds == { [num |-> -1, den |-> 2], [num |-> 0, den |-> 1],
                [num |-> 1, den |-> 2], [num |-> 1, den |-> 1] }
NoResult == <<"<not returned>">>

(* ------------------------- assess_collinearity ------------------------ *)
RECURSIVE Sum(_, _)
Sum(f, n) == IF n = 0 THEN 0 ELSE f[n] + Sum(f, n - 1)

NaN == [nan |-> TRUE, num |-> 0, den2 |-> 1]

\* Pearson coefficient of two columns x, y as num / sqrt(den2); NaN when a
\* column has no variance (or there are fewer than two rows).
pearson(x, y) ==
    LET n == Len(x)
        sx == Sum(x, n)
        sy == Sum(y, n)
        sxy == Sum([r \in 1..n |-> x[r] * y[r]], n)
        sxx == Sum([r \in 1..n |-> x[r] * x[r]], n)
        syy == Sum([r \in 1..n |-> y[r] * y[r]], n)
        vx == n * sxx - sx * sx
        vy == n * syy - sy * sy
    IN  IF vx * vy = 0 THEN NaN
        ELSE [nan |-> FALSE, num |-> n * sxy - sx * sy, den2 |-> vx * vy]

NCols(df) == Len(df.columns)

\* dataframe.corr(): the square matrix of pairwise coefficients
corr(df) ==
    [i \in 1..NCols(df), j \in 1..NCols(df) |-> pearson(df.data[i], df.data[j])]

\* (mutation) the sign of the coefficient is kept
np_abs_entry_signed(e) == e

np_abs_entry(e) ==
    IF e.nan THEN e ELSE [e EXCEPT !.num = IF e.num < 0 THEN -e.num ELSE e.num]

np_abs(m) == [ij \in DOMAIN m |-> np_abs_entry(m[ij])]

\* (mutation) the mask keeps the diagonal as well, whatever k is
np_triu_with_diagonal(n, k) == [i \in 1..n, j \in 1..n |-> j - i >= 0]

\* (mutation) the lower triangle is kept instead of the upper one
np_tril(n, k) == [i \in 1..n, j \in 1..n |-> i - j >= k]

\* np.triu(np.ones(shape), k).astype(bool): TRUE at (i, j) iff j - i >= k
np_triu(n, k) == [i \in 1..n, j \in 1..n |-> j - i >= k]

TriuOffset == 1

\* DataFrame.where(cond): entries outside the mask become NaN
where(m, cond) == [ij \in DOMAIN m |-> IF cond[ij] THEN m[ij] ELSE NaN]

\* e > t for an entry e = num/sqrt(den2) and a rational t; NaN > t is False
Greater(e, t) ==
    /\ ~e.nan
    /\ IF e.num >= 0
       THEN t.num < 0 \/ e.num * e.num * t.den * t.den > t.num * t.num * e.den2
       ELSE t.num < 0 /\ e.num * e.num * t.den * t.den < t.num * t.num * e.den2

\* (mutation) all() in place of any()
ColumnExceedsAll(upper_triangle, n, column, t) ==
    \A i \in 1..n : Greater(upper_triangle[i, column], t)

\* any(upper_triangle[column] > threshold)
ColumnExceeds(upper_triangle, n, column, t) ==
    \E i \in 1..n : Greater(upper_triangle[i, column], t)

assess_collinearity(df, t) ==
    LET n == NCols(df)
        corr_matrix == np_abs(corr(df))
        upper_triangle == where(corr_matrix, np_triu(n, TriuOffset))
        Flagged(column) == ColumnExceeds(upper_triangle, n, column, t)
        picked == SelectSeq([j \in 1..n |-> j], Flagged)
    IN  [p \in 1..Len(picked) |-> df.columns[picked[p]]]

DataframesOf(n) ==
    { [columns |-> SubSeq(ColumnNames, 1, n), data |-> d] :
        d \in [1..n -> [1..NRows -> Cells]] }

\* one call of assess_collinearity (the calls are synchronous: none starts
\* while perform_grid_search_cv is running)
AssessCollinearity ==
    /\ cpc = "idle"
    /\ pc \in {"idle", "returned", "raised"}
    /\ calls < MaxCalls
    /\ collinear_features' = assess_collinearity(dataframe, threshold)
    /\ cpc' = "returned"
    /\ calls' = calls + 1
    /\ UNCHANGED <<dataframe, threshold, gvars>>

(* ------------------------ perform_grid_search_cv ---------------------- *)
\* A string is a sequence of chunks; " " is a whitespace character.
RECURSIVE lstrip(_)
lstrip(s) == IF s # <<>> /\ Head(s) = " " THEN lstrip(Tail(s)) ELSE s

RECURSIVE rstrip(_)
rstrip(s) ==
    IF s # <<>> /\ s[Len(s)] = " " THEN rstrip(SubSeq(s, 1, Len(s) - 1)) ELSE s

\* str.strip()
strip(s) == rstrip(lstrip(s))

KernelNames ==
    { <<"linear">>, <<" ", "linear">>, <<"rbf", " ">>, <<"poly">> }

RECURSIVE SeqsUpTo(_, _)
SeqsUpTo(S, n) ==
    IF n = 0 THEN {<<>>}
    ELSE LET shorter == SeqsUpTo(S, n - 1)
         IN  shorter \cup
             {Append(q, x) : q \in {r \in shorter : Len(r) = n - 1}, x \in S}

Labels == {0, 1}

\* a parameter grid is known by the number of parameter combinations it spans
ParamGrids == (<<"linear">> :> 1) @@ (<<"rbf">> :> 2)

\* an accuracy num/den; nan_score is the float NaN
Score(n, d) == [nan |-> FALSE, num |-> n, den |-> d]
nan_score == [nan |-> TRUE, num |-> 0, den |-> 1]
NoScore == Score(0, 0)
NoPipeline == [fit_id |-> 0, kernel |-> <<>>, params |-> 0, support_ |-> <<>>]
NoGridSearch ==
    [fitted |-> FALSE, cv_results_ |-> <<>>, best_index_ |-> 0,
     best_score_ |-> NoScore, best_estimator_ |-> NoPipeline]
NoReturn == [returned |-> FALSE, value |-> <<>>]

\* Pipeline.named_steps
named_steps(pipeline, step) ==
    IF step = "rfe"
    THEN [fit_id |-> pipeline.fit_id, support_ |-> pipeline.support_]
    ELSE [fit_id |-> pipeline.fit_id, kernel |-> pipeline.kernel,
          params |-> pipeline.params]

\* ---- the library's cross-validation ----
\* size of test fold i (0-based) when n samples are split in k folds
FoldSize(n, k, i) == (n \div k) + (IF i < n % k THEN 1 ELSE 0)

RECURSIVE Product(_, _)
Product(f, S) ==
    IF S = {} THEN 1
    ELSE LET x == CHOOSE y \in S : TRUE IN f[x] * Product(f, S \ {x})

RECURSIVE Total(_, _)
Total(f, S) ==
    IF S = {} THEN 0
    ELSE LET x == CHOOSE y \in S : TRUE IN f[x] + Total(f, S \ {x})

\* mean over the folds of candidate c's scores, as one fraction; NaN when
\* one of them is NaN
mean_test_score(cv, k, c) ==
    LET dens == [i \in 0..(k - 1) |-> cv[i][c].den]
        all == Product(dens, 0..(k - 1))
    IN  IF \E i \in 0..(k - 1) : cv[i][c].nan THEN nan_score
        ELSE Score(Total([i \in 0..(k - 1) |->
                             cv[i][c].num * (all \div dens[i])], 0..(k - 1)),
                   k * all)

\* a < b for two means of the same table (they share one denominator); a NaN
\* mean ranks below every number
MeanBelow(a, b) == ~b.nan /\ (a.nan \/ a.num < b.num)

\* best_index_: the first candidate of the best rank
best_index(cv, k, ncand) ==
    CHOOSE c \in 0..(ncand - 1) :
        /\ \A e \in 0..(ncand - 1) :
              ~MeanBelow(mean_test_score(cv, k, c), mean_test_score(cv, k, e))
        /\ \A e \in 0..(c - 1) :
              MeanBelow(mean_test_score(cv, k, e), mean_test_score(cv, k, c))

\* what GridSearchCV records for candidate c on test fold i: the accuracy on
\* the fold, or NaN when the fit on that split raised (error_score=np.nan,
\* the default that line 37 leaves in place)
FoldScores(n, k, i) ==
    {Score(correct, FoldSize(n, k, i)) : correct \in 0..FoldSize(n, k, i)}
        \cup {nan_score}

\* every table cv_results_ can hold: entry [i][c] is the score of candidate c
\* on test fold i; a search all of whose fits failed raises instead
CvResults(n, k, ncand) ==
    { cv \in [0..(k - 1) -> [0..(ncand - 1) ->
                UNION {FoldScores(n, k, i) : i \in 0..(k - 1)}]] :
        /\ \A i \in 0..(k - 1) : \A c \in 0..(ncand - 1) :
              cv[i][c] \in FoldScores(n, k, i)
        /\ \E i \in 0..(k - 1) : \E c \in 0..(ncand - 1) : ~cv[i][c].nan }

\* every support mask RFECV can end with: at least one feature is kept
SupportMasks(nfeatures) ==
    { m \in [1..nfeatures -> BOOLEAN] : \E f \in 1..nfeatures : m[f] }

\* (mutation) the fraction is not normalised by the number of samples
accuracy_score_count(y_true, y_pred) ==
    Score(Cardinality({s \in 1..Len(y_true) : y_true[s] = y_pred[s]}), 1)

\* sklearn.metrics.accuracy_score
accuracy_score(y_true, y_pred) ==
    Score(Cardinality({s \in 1..Len(y_true) : y_true[s] = y_pred[s]}),
          Len(y_true))

\* (mutation) the features the mask rejects are listed
select_rejected(columns, mask) ==
    LET picked == SelectSeq([f \in 1..Len(columns) |-> f],
                            LAMBDA f : f <= Len(mask) /\ ~mask[f])
    IN  [p \in 1..Len(picked) |-> columns[picked[p]]]

\* [feature for feature, selected in zip(columns, mask) if selected]
select_features(columns, mask) ==
    LET picked == SelectSeq([f \in 1..Len(columns) |-> f],
                            LAMBDA f : f <= Len(mask) /\ mask[f])
    IN  [p \in 1..Len(picked) |-> columns[picked[p]]]

\* (mutation) the dict outlives the call
EmptyBestModelsKept == best_models

\* best_models = {}
EmptyBestModels == <<>>

\* lines 45-50: the entry of one kernel
ModelEntry(pipeline, rfecv, features) ==
    [best_pipeline |-> pipeline, best_rfecv |-> rfecv,
     best_svc_model |-> named_steps(pipeline, "svc"),
     selected_features |-> features]

\* (mutation) an entry already present is kept
DictSetKeepFirst(d, key, value) ==
    [x \in (DOMAIN d) \cup {key} |-> IF x \in DOMAIN d THEN d[x] ELSE value]

\* d[key] = value
DictSet(d, key, value) ==
    [x \in (DOMAIN d) \cup {key} |-> IF x = key THEN value ELSE d[x]]

\* (mutation) the loop variable itself is printed
FoldLabelZeroBased(i) == i

\* the number printed for loop index i: f"Fold {i+1}"
FoldLabel(i) == i + 1

\* (mutation) a failing step is swallowed and the loop goes on
OnErrorContinue(e) ==
    /\ pc' = "loop"
    /\ kernel_pos' = kernel_pos + 1
    /\ exception' = exception

\* an exception leaves the function: nothing catches it
OnError(e) ==
    /\ pc' = "raised"
    /\ exception' = e
    /\ kernel_pos' = kernel_pos

\* the loop variable of "for kernel in selected_kernels"
kernel == selected_kernels[kernel_pos + 1]

\* a printed line: its text, the kernel it is about, the number it shows
Line(text, k, n) == [text |-> text, kernel |-> k, n |-> n]

InitLocals ==
    /\ pc = "idle"
    /\ kernel_pos = 0
    /\ best_models = <<>>
    /\ grid_search = NoGridSearch
    /\ best_pipeline = NoPipeline
    /\ best_rfecv = named_steps(NoPipeline, "rfe")
    /\ selected_features = <<>>
    /\ y_train_pred = <<>>
    /\ y_test_pred = <<>>
    /\ train_accuracy = NoScore
    /\ test_accuracy = NoScore
    /\ fold = 0
    /\ output = <<>>
    /\ result = NoReturn
    /\ exception = "None"
    /\ calls = 0

\* line 23: entry of the call, with a frame of its own
Call ==
    /\ pc = "idle"
    /\ calls < MaxCalls
    /\ best_models' = EmptyBestModels
    /\ kernel_pos' = 0
    /\ grid_search' = NoGridSearch
    /\ best_pipeline' = NoPipeline
    /\ best_rfecv' = named_steps(NoPipeline, "rfe")
    /\ selected_features' = <<>>
    /\ y_train_pred' = <<>>
    /\ y_test_pred' = <<>>
    /\ train_accuracy' = NoScore
    /\ test_accuracy' = NoScore
    /\ fold' = 0
    /\ output' = <<>>
    /\ result' = NoReturn
    /\ exception' = "None"
    /\ pc' = "loop"
    /\ calls' = calls + 1
    /\ UNCHANGED <<cvars, gargs>>

\* lines 25-26: the next kernel of the list, announced
NextKernel ==
    /\ pc = "loop"
    /\ kernel_pos < Len(selected_kernels)
    /\ output' = Append(output, Line("Running GridSearchCV", strip(kernel), 0))
    /\ pc' = "fit"
    /\ UNCHANGED <<calls, cvars, gargs, kernel_pos, best_models, grid_search,
                   best_pipeline, best_rfecv, selected_features, y_train_pred,
                   y_test_pred, train_accuracy, test_accuracy, fold, result,
                   exception>>

\* line 76: the list is exhausted
Return ==
    /\ pc = "loop"
    /\ kernel_pos >= Len(selected_kernels)
    /\ result' = [returned |-> TRUE, value |-> best_models]
    /\ pc' = "returned"
    /\ UNCHANGED <<calls, cvars, gargs, kernel_pos, best_models, grid_search,
                   best_pipeline, best_rfecv, selected_features, y_train_pred,
                   y_test_pred, train_accuracy, test_accuracy, fold, output,
                   exception>>

\* line 37: param_grids[kernel.strip()] of a missing key
FitKeyError ==
    /\ pc = "fit"
    /\ strip(kernel) \notin DOMAIN param_grids
    /\ OnError("KeyError")
    /\ UNCHANGED <<calls, cvars, gargs, best_models, grid_search, best_pipeline,
                   best_rfecv, selected_features, y_train_pred, y_test_pred,
                   train_accuracy, test_accuracy, fold, output, result>>

\* line 38: the library raises in fit
FitRaises ==
    /\ pc = "fit"
    /\ strip(kernel) \in DOMAIN param_grids
    /\ OnError("ValueError")
    /\ UNCHANGED <<calls, cvars, gargs, best_models, grid_search, best_pipeline,
                   best_rfecv, selected_features, y_train_pred, y_test_pred,
                   train_accuracy, test_accuracy, fold, output, result>>

\* lines 28-38: the grid search is built and fitted
Fit ==
    /\ pc = "fit"
    /\ strip(kernel) \in DOMAIN param_grids
    /\ k_fold >= 2
    /\ Len(y_train) >= k_fold
    /\ \E cv \in CvResults(Len(y_train), k_fold, param_grids[strip(kernel)]),
          mask \in SupportMasks(Len(X_train_scaled_df.columns)) :
          LET best == best_index(cv, k_fold, param_grids[strip(kernel)])
          IN  grid_search' =
                [fitted |-> TRUE,
                 cv_results_ |-> cv,
                 best_index_ |-> best,
                 best_score_ |-> mean_test_score(cv, k_fold, best),
                 best_estimator_ |->
                    [fit_id |-> kernel_pos + 1, kernel |-> strip(kernel),
                     params |-> best, support_ |-> mask]]
    /\ pc' = "extract"
    /\ UNCHANGED <<calls, cvars, gargs, kernel_pos, best_models, best_pipeline,
                   best_rfecv, selected_features, y_train_pred, y_test_pred,
                   train_accuracy, test_accuracy, fold, output, result,
                   exception>>

\* lines 39-42
Extract ==
    /\ pc = "extract"
    /\ best_pipeline' = grid_search.best_estimator_
    /\ best_rfecv' = named_steps(grid_search.best_estimator_, "rfe")
    /\ selected_features' =
          select_features(X_train_scaled_df.columns,
                          named_steps(grid_search.best_estimator_, "rfe").support_)
    /\ pc' = "store"
    /\ UNCHANGED <<calls, cvars, gargs, kernel_pos, best_models, grid_search,
                   y_train_pred, y_test_pred, train_accuracy, test_accuracy,
                   fold, output, result, exception>>

\* lines 45-50
Store ==
    /\ pc = "store"
    /\ best_models' =
          DictSet(best_models, strip(kernel),
                  ModelEntry(best_pipeline, best_rfecv, selected_features))
    /\ pc' = "predict"
    /\ UNCHANGED <<calls, cvars, gargs, kernel_pos, grid_search, best_pipeline,
                   best_rfecv, selected_features, y_train_pred, y_test_pred,
                   train_accuracy, test_accuracy, fold, output, result,
                   exception>>

\* lines 52-53: predict raises on a test set without samples
PredictRaises ==
    /\ pc = "predict"
    /\ X_test_scaled_df.n_samples = 0
    /\ OnError("ValueError")
    /\ UNCHANGED <<calls, cvars, gargs, best_models, grid_search, best_pipeline,
                   best_rfecv, selected_features, y_train_pred, y_test_pred,
                   train_accuracy, test_accuracy, fold, output, result>>

\* lines 52-57
Predict ==
    /\ pc = "predict"
    /\ X_test_scaled_df.n_samples > 0
    /\ \E p \in [1..X_train_scaled_df.n_samples -> Labels],
          q \in [1..X_test_scaled_df.n_samples -> Labels] :
          /\ y_train_pred' = p
          /\ y_test_pred' = q
          /\ train_accuracy' = accuracy_score(y_train, p)
          /\ test_accuracy' = accuracy_score(y_test, q)
    /\ pc' = "report"
    /\ UNCHANGED <<calls, cvars, gargs, kernel_pos, best_models, grid_search,
                   best_pipeline, best_rfecv, selected_features, fold, output,
                   result, exception>>

\* lines 60-67
Report ==
    /\ pc = "report"
    /\ output' = output \o
          << Line("Best SVM Parameters", kernel, 0),
             Line("Training Set Accuracy", kernel, 0),
             Line("Test Set Accuracy", kernel, 0),
             Line("Cross-Validation Scores", kernel, 0),
             Line("Best Cross-Validation Score", kernel, 0),
             Line("Number of Features Selected", kernel,
                  Len(selected_features)),
             Line("", kernel, 0),
             Line("Cross-Validation Scores for Best Parameter Combination",
                  kernel, 0) >>
    /\ fold' = 0
    /\ pc' = "folds"
    /\ UNCHANGED <<calls, cvars, gargs, kernel_pos, best_models, grid_search,
                   best_pipeline, best_rfecv, selected_features, y_train_pred,
                   y_test_pred, train_accuracy, test_accuracy, result,
                   exception>>

\* lines 68-69: one pass of the loop over range(k_fold)
PrintFold ==
    /\ pc = "folds"
    /\ fold < k_fold
    /\ output' = Append(output, Line("Fold", kernel, FoldLabel(fold)))
    /\ fold' = fold + 1
    /\ UNCHANGED <<calls, cvars, gargs, pc, kernel_pos, best_models, grid_search,
                   best_pipeline, best_rfecv, selected_features, y_train_pred,
                   y_test_pred, train_accuracy, test_accuracy, result,
                   exception>>

\* lines 70-74, and back to the head of the loop over the kernels. The names
\* bound in this pass are bound anew before the next pass reads them, so
\* their values are dropped here.
ClassificationReports ==
    /\ pc = "folds"
    /\ fold >= k_fold
    /\ output' = output \o
          << Line("Classification Report Training Set", kernel, 0),
             Line("Classification Report Test Set", kernel, 0),
             Line("", kernel, 0) >>
    /\ kernel_pos' = kernel_pos + 1
    /\ pc' = "loop"
    /\ grid_search' = NoGridSearch
    /\ best_pipeline' = NoPipeline
    /\ best_rfecv' = named_steps(NoPipeline, "rfe")
    /\ selected_features' = <<>>
    /\ y_train_pred' = <<>>
    /\ y_test_pred' = <<>>
    /\ train_accuracy' = NoScore
    /\ test_accuracy' = NoScore
    /\ fold' = 0
    /\ UNCHANGED <<calls, cvars, gargs, best_models, result, exception>>

\* ---- the caller (a notebook or script): one call after the other ----
TrainSets ==
    { [X |-> [columns |-> <<"f3", "f1">>, n_samples |-> 2], y |-> <<0, 1>>],
      [X |-> [columns |-> <<"f3">>, n_samples |-> 3], y |-> <<0, 1, 1>>] }

\* the test sets that go with a training set: the same columns, no sample or one
TestSets(train) ==
    { [X |-> [columns |-> train.X.columns, n_samples |-> 0], y |-> <<>>],
      [X |-> [columns |-> train.X.columns, n_samples |-> 1], y |-> <<1>>] }

FoldCounts == 1..MaxFold

GridArguments(kernel_lists, train_sets, fold_counts) ==
    /\ selected_kernels \in kernel_lists
    /\ param_grids = ParamGrids
    /\ \E train \in train_sets : \E test \in TestSets(train) :
          /\ X_train_scaled_df = train.X
          /\ y_train = train.y
          /\ X_test_scaled_df = test.X
          /\ y_test = test.y
    /\ k_fold \in fold_counts

SmallTrainSets == {train \in TrainSets : train.X.n_samples = 2}

IdleCollinearity ==
    /\ dataframe = [columns |-> <<"f3", "f1", "f4">>,
                    data |-> << <<0, 0, 1>>, <<1, 1, 0>>, <<0, 1, 0>> >>]
    /\ collinear_features = NoResult
    /\ cpc = "idle"

\* assess_collinearity alone, on every dataframe and threshold of the bounds
InitCollinearity ==
    /\ \E n \in 0..MaxCols : dataframe \in DataframesOf(n)
    /\ threshold \in Thresholds
    /\ collinear_features = NoResult
    /\ cpc = "idle"
    /\ GridArguments({<<>>}, SmallTrainSets, {2})
    /\ y_test # <<>>
    /\ InitLocals

NextCollinearity == AssessCollinearity

SpecCollinearity == InitCollinearity /\ [][NextCollinearity]_vars

\* perform_grid_search_cv alone, on every list of kernels of the bounds
InitGridSearch ==
    /\ IdleCollinearity
    /\ threshold = [num |-> 1, den |-> 2]
    /\ GridArguments(SeqsUpTo(KernelNames, MaxKernels), TrainSets, FoldCounts)
    /\ InitLocals

NextGridSearch ==
    \/ Call
    \/ NextKernel
    \/ Return
    \/ FitKeyError
    \/ FitRaises
    \/ Fit
    \/ Extract
    \/ Store
    \/ PredictRaises
    \/ Predict
    \/ Report
    \/ PrintFold
    \/ ClassificationReports

SpecGridSearch == InitGridSearch /\ [][NextGridSearch]_vars

\* the caller takes the outcome of a call and makes ready for another one,
\* with another list of kernels
NextCallGridSearch ==
    /\ pc \in {"returned", "raised"}
    /\ selected_kernels' \in SeqsUpTo(KernelNames, 1)
    /\ pc' = "idle"
    /\ UNCHANGED <<calls, cvars, param_grids, X_train_scaled_df, y_train,
                   X_test_scaled_df, y_test, k_fold, kernel_pos, best_models,
                   grid_search, best_pipeline, best_rfecv, selected_features,
                   y_train_pred, y_test_pred, train_accuracy, test_accuracy,
                   fold, output, result, exception>>

\* ... and for another call of assess_collinearity, with another threshold
NextCallCollinearity ==
    /\ cpc = "returned"
    /\ pc \in {"idle", "returned", "raised"}
    /\ threshold' \in Thresholds
    /\ cpc' = "idle"
    /\ UNCHANGED <<calls, dataframe, collinear_features, gvars>>

\* calls of both functions, one after the other in any order
Init ==
    /\ IdleCollinearity
    /\ threshold \in Thresholds
    /\ GridArguments(SeqsUpTo(KernelNames, 1), SmallTrainSets, {2})
    /\ InitLocals

Next ==
    \/ AssessCollinearity
    \/ NextCallCollinearity
    \/ NextGridSearch
    \/ NextCallGridSearch

Spec == Init /\ [][Next]_vars

(* ------------------- properties of assess_collinearity ---------------- *)
Returned == cpc = "returned"
Features == {collinear_features[p] : p \in 1..Len(collinear_features)}
Positions == 1..NCols(dataframe)
Name(c) == dataframe.columns[c]
R(c, d) == pearson(dataframe.data[c], dataframe.data[d])

\* |e| > t, stated on the exact values; an undefined coefficient exceeds nothing
AbsExceeds(e, t) ==
    /\ ~e.nan
    /\ (t.num < 0 \/ e.num * e.num * t.den * t.den > t.num * t.num * e.den2)

\* |e| = t
AbsEquals(e, t) ==
    /\ ~e.nan
    /\ t.num >= 0
    /\ e.num * e.num * t.den * t.den = t.num * t.num * e.den2

\* C1 as stated: a column is returned iff it is correlated above the threshold
\* with some LATER column.
C1_LaterColumn ==
    Returned =>
        \A c \in Positions :
            Name(c) \in Features <=>
                \E d \in Positions : d > c /\ AbsExceeds(R(c, d), threshold)

\* C1 (amended): a column is returned iff its absolute correlation with some
\* EARLIER column (one positioned before it) exceeds the threshold.
C1_EarlierColumn ==
    Returned =>
        \A c \in Positions :
            Name(c) \in Features <=>
                \E d \in Positions : d < c /\ AbsExceeds(R(d, c), threshold)

C1_Witness ==
    /\ Returned
    /\ \E c, d \in Positions :
          /\ c < d
          /\ AbsExceeds(R(c, d), threshold)
          /\ Name(d) \in Features
          /\ Name(c) \notin Features

\* C2: the diagonal and lower triangle are masked, so when no two distinct
\* columns are correlated above the threshold the result is the empty list,
\* even when the threshold is below 1 (the self-correlation).
C2_DiagonalMasked ==
    (Returned /\ \A c, d \in Positions :
                    c # d => ~AbsExceeds(R(c, d), threshold))
        => collinear_features = <<>>

C2_Witness ==
    /\ Returned
    /\ Positions # {}
    /\ \A c \in Positions : AbsExceeds(R(c, c), threshold)
    /\ \A c, d \in Positions : c # d => ~AbsExceeds(R(c, d), threshold)
    /\ collinear_features = <<>>

\* the dataframe with column c negated: its correlation with every other
\* column changes sign
Negated(df, c) ==
    [df EXCEPT !.data[c] = [r \in DOMAIN df.data[c] |-> -df.data[c][r]]]

\* C8: the test is strict and sign-independent: a column whose coefficients
\* with the other columns are all undefined or at most the threshold in
\* absolute value (equality included) is not returned, and negating any
\* column leaves the result unchanged.
C8_StrictSignIndependent ==
    Returned =>
        /\ \A c \in Positions :
              (\A d \in Positions \ {c} :
                  R(d, c).nan \/ AbsEquals(R(d, c), threshold)
                              \/ ~AbsExceeds(R(d, c), threshold))
                  => Name(c) \notin Features
        /\ \A c \in Positions :
              assess_collinearity(Negated(dataframe, c), threshold)
                  = collinear_features

C8_Witness ==
    /\ Returned
    /\ \E c, d \in Positions :
          /\ c < d
          /\ R(c, d).num < 0
          /\ AbsEquals(R(c, d), threshold)
          /\ Name(d) \notin Features
    /\ \E c, d \in Positions :
          /\ c < d
          /\ R(c, d).num < 0
          /\ AbsExceeds(R(c, d), threshold)
          /\ Name(d) \in Features

Position(name) == CHOOSE c \in Positions : Name(c) = name

\* C10: the result is a sub-sequence of the columns (order kept, no
\* duplicates, never the first column), and the columns that are not returned
\* are pairwise correlated at most at the threshold.
C10_SubsequenceAndResidue ==
    Returned =>
        /\ \A p \in 1..Len(collinear_features) :
              \E c \in Positions : Name(c) = collinear_features[p] /\ c # 1
        /\ \A p, q \in 1..Len(collinear_features) :
              p < q => Position(collinear_features[p])
                          < Position(collinear_features[q])
        /\ \A c, d \in Positions :
              (c # d /\ Name(c) \notin Features /\ Name(d) \notin Features)
                  => ~AbsExceeds(R(c, d), threshold)

C10_Witness ==
    /\ Returned
    /\ Len(collinear_features) >= 1
    /\ Cardinality({c \in Positions : Name(c) \notin Features}) >= 2

(* ------------------ properties of perform_grid_search_cv -------------- *)
KernelCount == Len(selected_kernels)
StrippedNames == {strip(selected_kernels[p]) : p \in 1..KernelCount}
LastOccurrence(key) ==
    CHOOSE p \in 1..KernelCount :
        /\ strip(selected_kernels[p]) = key
        /\ \A q \in (p + 1)..KernelCount : strip(selected_kernels[q]) # key
EntryKeys ==
    {"best_pipeline", "best_rfecv", "best_svc_model", "selected_features"}
TrainColumns == X_train_scaled_df.columns
TrueCount(mask) == Cardinality({f \in DOMAIN mask : mask[f]})
InUnitInterval(score) ==
    ~score.nan /\ score.den > 0 /\ 0 <= score.num /\ score.num <= score.den

\* the features a mask selects, stated position by position
SelectsExactly(features, mask) ==
    /\ Len(features) = TrueCount(mask)
    /\ \A f \in DOMAIN mask :
          mask[f] <=> \E p \in 1..Len(features) : features[p] = TrainColumns[f]
    /\ \A p, q \in 1..Len(features) :
          p < q => \E f, g \in DOMAIN mask :
                      /\ f < g
                      /\ features[p] = TrainColumns[f]
                      /\ features[q] = TrainColumns[g]

\* C3: on a normal return the keys of the dict are the stripped kernel names,
\* names equal after stripping share the entry of their last occurrence, and
\* every entry has exactly the four keys, all from that kernel's own search.
C3_ReturnedDict ==
    pc = "returned" =>
        /\ result.returned
        /\ DOMAIN result.value = StrippedNames
        /\ \A key \in DOMAIN result.value :
              LET entry == result.value[key]
              IN  /\ DOMAIN entry = EntryKeys
                  /\ entry.best_pipeline.kernel = key
                  /\ entry.best_pipeline.fit_id = LastOccurrence(key)
                  /\ entry.best_rfecv.fit_id = LastOccurrence(key)
                  /\ entry.best_rfecv.support_ = entry.best_pipeline.support_
                  /\ entry.best_svc_model.fit_id = LastOccurrence(key)
                  /\ entry.best_svc_model.kernel = key
                  /\ SelectsExactly(entry.selected_features,
                                    entry.best_rfecv.support_)

C3_Witness ==
    /\ pc = "returned"
    /\ KernelCount = 2
    /\ selected_kernels[1] # selected_kernels[2]
    /\ DOMAIN result.value = {<<"linear">>}
    /\ result.value[<<"linear">>].best_pipeline.fit_id = 2

\* C4: every stored feature list is non-empty and is exactly the training
\* columns the support mask selects, in column order without duplicates; its
\* length is the number printed as "Number of Features Selected".
C4_SelectedFeatures ==
    /\ \A key \in DOMAIN best_models :
          /\ Len(best_models[key].selected_features) >= 1
          /\ SelectsExactly(best_models[key].selected_features,
                            best_models[key].best_rfecv.support_)
    /\ (pc = "folds" /\ fold = 0) =>
          /\ output[Len(output) - 2].text = "Number of Features Selected"
          /\ output[Len(output) - 2].n
                = TrueCount(best_models[strip(kernel)].best_rfecv.support_)

C4_Witness ==
    /\ pc = "folds"
    /\ fold = 0
    /\ Len(TrainColumns) = 2
    /\ best_models[strip(kernel)].selected_features = <<TrainColumns[2]>>

AccuraciesAreFractions ==
    pc \in {"report", "folds"} =>
        /\ train_accuracy.den = Len(y_train)
        /\ train_accuracy.num =
              Cardinality({s \in 1..Len(y_train) : y_train_pred[s] = y_train[s]})
        /\ test_accuracy.den = Len(y_test)
        /\ test_accuracy.num =
              Cardinality({s \in 1..Len(y_test) : y_test_pred[s] = y_test[s]})
        /\ InUnitInterval(train_accuracy)
        /\ InUnitInterval(test_accuracy)

BestFoldScore(i) == grid_search.cv_results_[i][grid_search.best_index_]

\* C5 as stated: the training and test accuracies, the best cross-validation
\* score and every per-fold score of the best parameter combination lie within
\* [0, 1].
C5_AllScoresInUnitInterval ==
    /\ AccuraciesAreFractions
    /\ grid_search.fitted =>
          /\ InUnitInterval(grid_search.best_score_)
          /\ \A i \in 0..(k_fold - 1) : InUnitInterval(BestFoldScore(i))

\* C5 (amended): the training and test accuracies are the fraction of samples
\* predicted correctly and lie within [0, 1]; a per-fold score of the best
\* parameter combination lies within [0, 1] or is NaN (the fit on that split
\* failed), and the best cross-validation score lies within [0, 1] unless one
\* of those per-fold scores is NaN, and is NaN then.
C5_ScoresInUnitIntervalOrNaN ==
    /\ AccuraciesAreFractions
    /\ grid_search.fitted =>
          /\ \A i \in 0..(k_fold - 1) :
                BestFoldScore(i).nan \/ InUnitInterval(BestFoldScore(i))
          /\ IF \E i \in 0..(k_fold - 1) : BestFoldScore(i).nan
             THEN grid_search.best_score_.nan
             ELSE InUnitInterval(grid_search.best_score_)

C5_Witness ==
    /\ pc = "folds"
    /\ train_accuracy = Score(Len(y_train), Len(y_train))
    /\ test_accuracy = Score(0, Len(y_test))
    /\ grid_search.best_index_ = 1
    /\ grid_search.best_score_.num > 0
    /\ grid_search.best_score_.num < grid_search.best_score_.den
    /\ \E i \in 0..(k_fold - 1) : grid_search.cv_results_[i][0].nan

\* C6: a failing step raises out of the call at once: the call ends raised,
\* later kernels are not processed, and no dict is returned, whatever was
\* stored for earlier kernels.
C6_ErrorsPropagate ==
    /\ [](pc = "raised" => exception # "None" /\ ~result.returned)
    /\ [][(pc = "fit" /\ strip(kernel) \notin DOMAIN param_grids)
            => (pc' = "raised" /\ exception' = "KeyError")]_vars
    /\ [][(pc = "fit" /\ strip(kernel) \in DOMAIN param_grids
                       /\ (k_fold < 2 \/ Len(y_train) < k_fold))
            => (pc' = "raised" /\ exception' = "ValueError")]_vars
    /\ [][(pc = "predict" /\ X_test_scaled_df.n_samples = 0)
            => (pc' = "raised" /\ exception' = "ValueError")]_vars
    /\ [][pc = "raised" =>
            (pc' = "raised" /\ UNCHANGED <<kernel_pos, best_models, output, result>>)
         ]_vars

C6_Witness ==
    /\ pc = "raised"
    /\ kernel_pos = 1
    /\ DOMAIN best_models # {}
    /\ ~result.returned

\* the lines one kernel prints when nothing fails
KernelLines(raw, k, nfeatures) ==
    << Line("Running GridSearchCV", strip(raw), 0),
       Line("Best SVM Parameters", raw, 0),
       Line("Training Set Accuracy", raw, 0),
       Line("Test Set Accuracy", raw, 0),
       Line("Cross-Validation Scores", raw, 0),
       Line("Best Cross-Validation Score", raw, 0),
       Line("Number of Features Selected", raw, nfeatures),
       Line("", raw, 0),
       Line("Cross-Validation Scores for Best Parameter Combination", raw, 0) >>
    \o [i \in 1..k |-> Line("Fold", raw, i)]
    \o << Line("Classification Report Training Set", raw, 0),
          Line("Classification Report Test Set", raw, 0),
          Line("", raw, 0) >>

LinesPerKernel == 12 + k_fold

\* the part of the output kernel number p (1-based) has printed
OutputOf(p) ==
    SubSeq(output, (p - 1) * LinesPerKernel + 1,
           IF p * LinesPerKernel <= Len(output)
           THEN p * LinesPerKernel ELSE Len(output))

IsPrefix(a, b) == Len(a) <= Len(b) /\ a = SubSeq(b, 1, Len(a))

StepOrder ==
    /\ pc = "idle" => pc' = "loop"
    /\ pc = "loop" => pc' \in {"fit", "returned"}
    /\ pc = "fit" => pc' \in {"extract", "raised"}
    /\ pc = "extract" => pc' = "store"
    /\ pc = "store" => pc' = "predict"
    /\ pc = "predict" => pc' \in {"report", "raised"}
    /\ pc = "report" => pc' = "folds"
    /\ pc = "folds" => pc' \in {"folds", "loop"}
    /\ kernel_pos' = IF pc = "folds" /\ pc' = "loop"
                     THEN kernel_pos + 1 ELSE kernel_pos
    /\ (pc = "folds" /\ pc' = "loop") => fold = k_fold

\* C9: the kernels are processed one after the other in list order, each
\* through fit, extraction, storing, prediction and reporting (accuracies,
\* then the lines Fold 1..Fold k_fold, then the two classification reports),
\* and a call in which nothing fails returns after len(selected_kernels)
\* iterations.
C9_SequentialOrder ==
    /\ [][StepOrder]_gvars
    /\ [](pc \in {"predict", "report", "folds"}
            => strip(kernel) \in DOMAIN best_models)
    /\ [](\A p \in 1..KernelCount :
            \/ p > kernel_pos + 1 /\ OutputOf(p) = <<>>
            \/ /\ p <= kernel_pos + 1
               /\ \E n \in 1..Len(TrainColumns) :
                     IsPrefix(OutputOf(p),
                              KernelLines(selected_kernels[p], k_fold, n))
               /\ p <= kernel_pos => Len(OutputOf(p)) = LinesPerKernel)
    /\ [](pc = "returned" =>
            kernel_pos = KernelCount /\ Len(output) = KernelCount * LinesPerKernel)

C9_Witness ==
    /\ pc = "returned"
    /\ KernelCount = 2
    /\ selected_kernels[1] # selected_kernels[2]
    /\ output[LinesPerKernel + 11] = Line("Fold", selected_kernels[2], k_fold)

(* ----------------------- properties of the calls ---------------------- *)
\* C7: a call leaves its arguments unchanged and nothing survives from one
\* call to the next: after any sequence of calls a result is what the call
\* gives on its own arguments alone.
C7_Stateless ==
    /\ [][pc \notin {"returned", "raised"} => UNCHANGED gargs]_vars
    /\ [][cpc = "idle" => UNCHANGED <<dataframe, threshold>>]_vars
    /\ [][pc' = "loop" /\ pc = "idle" => best_models' = <<>>]_vars
    /\ [](cpc = "returned" =>
            collinear_features = assess_collinearity(dataframe, threshold))
    /\ [](pc = "returned" =>
            /\ DOMAIN result.value = StrippedNames
            /\ \A key \in DOMAIN result.value :
                  result.value[key].best_pipeline.fit_id = LastOccurrence(key))

C7_Witness ==
    /\ calls = MaxCalls
    /\ pc = "returned"
    /\ cpc = "returned"
    /\ result.value # <<>>
    /\ collinear_features # <<>>
====
